---- MODULE Spec2Model ----
(***************************************************************************)
(* Calendar approval handler of zorya: event proposals stored in the       *)
(* event_proposals table, the Telegram inline-keyboard callback handler    *)
(* (onEventCallback), the hourly expireStaleProposals sweep and the        *)
(* Calendar API client createCalendarEvent of src/calendar-approval.ts.    *)
(*                                                                         *)
(* Time is counted in minutes.  The host is one Node.js process: code      *)
(* between two awaits runs to completion, so every action below is one     *)
(* synchronous segment of a handler (from one await to the next), and the  *)
(* handlers and the sweep interleave only at the awaits.  A callback may   *)
(* be delivered while an earlier one still awaits createCalendarEvent.     *)
(***************************************************************************)
EXTENDS Integers, FiniteSets, Sequences, TLC

\* ---- bounds of the model -------------------------------------------------
NumProposals == 1          \* proposal ids 1..NumProposals
NumHandlers == 2           \* callback handler invocations that may overlap
MaxCount == 2              \* the history counters count up to MaxCount and stay there
MaxSlack == 1              \* minutes sampled around each instant of interest
MaxTokens == 2             \* access tokens the token endpoint issues in one behaviour
MaxIdLen == 3              \* characters of a proposal id in the callback data

\* ---- program constants ---------------------------------------------------
\* "Proposals expire after 24h": the expiry window, in minutes.
EXPIRY_WINDOW == 24 * 60

\* const EXPIRY_BUFFER_MS = 5 * 60 * 1000, in minutes.
EXPIRY_BUFFER == 5
\* expires_in of a token response (3600 s), in minutes.
EXPIRES_IN == 60

Ids == 1..NumProposals
Handlers == 1..NumHandlers

\* The sampled clock: the minutes right after start-up and the minutes around
\* the expiry of a proposal created then.
Times == (0..MaxSlack) \cup (EXPIRY_WINDOW..(EXPIRY_WINDOW + MaxSlack + 1))

\* The CHECK constraint of event_proposals.status.
Statuses == {"pending", "approved", "rejected", "expired"}
Terminal == {"approved", "rejected", "expired"}

\* callback data is `event:<action>:<id>`; the keyboard offers approve and skip,
\* the channel passes any other action string through unchanged.
Tags == {"approve", "skip", "other"}

\* HTTP outcomes of the Calendar API events.insert call: 200, 401, another
\* status, or a socket error (the request promise rejects).
ApiOutcomes == {"200", "401", "500", "neterr"}

NoRow == [status |-> "none"]
Null == -1

VARIABLES
    now,          \* Date.now(), in minutes
    store,        \* event_proposals: id -> row, or NoRow
    msg,          \* the Telegram approval message of each proposal
    cb,           \* the running onEventCallback invocations
    events,       \* events that exist in the Google calendar, per proposal
    transitions,  \* committed status writes, per proposal
    expiredAt,    \* when the row was set to expired
    issued,       \* what each handler had read when it issued events.insert
    oauth,        \* ~/.google-oauth/oauth.json: the credential record, or NoFile
    minted,       \* access tokens the token endpoint has issued so far
    op            \* the last step, when it was a sweep, a callback delivery or an IPC request

vars == <<now, store, msg, cb, events, transitions, expiredAt,
          issued, oauth, minted, op>>

Op(name, id, tag) == [name |-> name, id |-> id, tag |-> tag]

NoRead == [status |-> "none", age |-> "none", start |-> "none"]
\* client_id, client_secret and refresh_token of a credential record a
\* getAccessToken call has read, when it has read one.
NoCreds == [client_id |-> "none", client_secret |-> "none", refresh_token |-> "none"]
\* The JSON body of events.insert, when the invocation has a proposal.
NoBody == [none |-> TRUE]
Idle == [pc |-> "idle", id |-> 0, tag |-> "none", res |-> "none", read |-> NoRead,
         token |-> Null, creds |-> NoCreds, body |-> NoBody]

\* ---- db.ts -----------------------------------------------------------------

\* Mutant: the table has no key on id (or the INSERT is an INSERT OR REPLACE).
InsertConflictNever(st, id) == FALSE

\* id TEXT PRIMARY KEY: an INSERT of an id that is in a row fails.
InsertConflict(st, id) == st[id] # NoRow

\* createEventProposal(proposal): INSERT with status 'pending'.  A failed INSERT
\* changes nothing (the statement throws).
createEventProposal(st, id, t, req) ==
    IF InsertConflict(st, id) THEN st
    ELSE [st EXCEPT ![id] = [status |-> "pending", created_at |-> t,
                             title |-> req.title, attendees |-> req.attendees,
                             start_time |-> req.startTime, end_time |-> req.endTime,
                             telegram_message_id |-> Null, resolved_at |-> Null]]

\* Mutant: a lookup that misses answers a fresh pending row.
getEventProposalOrNew(st, id) ==
    IF st[id] = NoRow
    THEN [status |-> "pending", created_at |-> 0, title |-> <<"a">>,
          attendees |-> <<>>, start_time |-> 2 * EXPIRY_WINDOW,
          end_time |-> 2 * EXPIRY_WINDOW + 30, telegram_message_id |-> Null,
          resolved_at |-> Null]
    ELSE st[id]

\* getEventProposal(id)
getEventProposal(st, id) == st[id]

\* Mutant: the update leaves resolved_at alone.
updateEventProposalStatusNoStamp(st, id, status, t) ==
    [st EXCEPT ![id].status = status]

\* Mutant: the update as a compare-and-set on status = 'pending'.
updateEventProposalStatusCas(st, id, status, t) ==
    IF st[id].status = "pending"
    THEN [st EXCEPT ![id].status = status, ![id].resolved_at = t]
    ELSE st

\* updateEventProposalStatus(id, status): UPDATE ... SET status, resolved_at
\* WHERE id = ?  -- the stored status is not compared.
updateEventProposalStatus(st, id, status, t) ==
    [st EXCEPT ![id].status = status, ![id].resolved_at = t]

\* Mutant: the sweep matches no row.
IsStaleNever(row, t) == FALSE

\* Mutant: the sweep forgets the status.
IsStaleAnyStatus(row, t) ==
    /\ row # NoRow
    /\ row.status # "expired"
    /\ row.created_at < t - EXPIRY_WINDOW

\* Mutant: the sweep forgets the 24 hours.
IsStaleNoWindow(row, t) ==
    /\ row # NoRow
    /\ row.status = "pending"
    /\ row.created_at < t

\* Mutant: the sweep takes a row that is exactly 24 hours old.
IsStaleInclusive(row, t) ==
    /\ row # NoRow
    /\ row.status = "pending"
    /\ row.created_at <= t - EXPIRY_WINDOW

\* The rows expireStaleProposals() selects: pending and created_at < 24h ago.
IsStale(row, t) ==
    /\ row # NoRow
    /\ row.status = "pending"
    /\ row.created_at < t - EXPIRY_WINDOW

\* expireStaleProposals(): one UPDATE statement over the stale rows.
expireStaleProposals(st, t) ==
    [id \in Ids |-> IF IsStale(st[id], t)
                    THEN [st[id] EXCEPT !.status = "expired"]
                    ELSE st[id]]

\* ---- calendar-approval.ts ----------------------------------------------------

\* oauth.json as the setup script wrote it (interface OAuthCredentials).
OAuthFile(token, expiry) ==
    [client_id |-> "client", client_secret |-> "secret", refresh_token |-> "refresh",
     access_token |-> token, token_expiry |-> expiry, exists |-> TRUE]

NoFile == [client_id |-> "none", client_secret |-> "none", refresh_token |-> "none",
           access_token |-> Null, token_expiry |-> Null, exists |-> FALSE]

\* The fields of `creds` that `{ ...creds, ...fresh }` keeps.
CredsOf(file) ==
    [client_id |-> file.client_id, client_secret |-> file.client_secret,
     refresh_token |-> file.refresh_token]

\* Mutant: the stored token is never taken as valid.
TokenCheckAlwaysRefresh(file, t) == IF ~file.exists THEN "missing" ELSE "refresh"

\* Mutant: the expiry is compared without the five minutes.
TokenCheckNoBuffer(file, t) ==
    IF ~file.exists THEN "missing"
    ELSE IF file.access_token # Null /\ file.token_expiry # Null
            /\ t < file.token_expiry
         THEN "valid"
         ELSE "refresh"

\* Mutant: a missing file is treated as a record without a token.
TokenCheckMissingRefreshes(file, t) ==
    IF file.access_token # Null /\ file.token_expiry # Null
       /\ t < file.token_expiry - EXPIRY_BUFFER
    THEN "valid"
    ELSE "refresh"

\* getAccessToken(), up to its first await: "missing" (throws), "valid" (returns
\* the stored token) or "refresh" (awaits refreshToken).
TokenCheck(file, t) ==
    IF ~file.exists THEN "missing"
    ELSE IF file.access_token # Null /\ file.token_expiry # Null
            /\ t < file.token_expiry - EXPIRY_BUFFER
         THEN "valid"
         ELSE "refresh"

\* Mutant: the refresh token of the response replaces the stored one.
RefreshedRotates(creds, token, t) ==
    [client_id |-> creds.client_id, client_secret |-> creds.client_secret,
     refresh_token |-> "rotated",
     access_token |-> token, token_expiry |-> t + EXPIRES_IN, exists |-> TRUE]

\* Mutant: only the access token is merged into the record now on disk.
RefreshedTokenOnly(creds, token, t) == [oauth EXCEPT !.access_token = token]

\* The body of a token response that is not a 200: JSON or not, with or
\* without error_description and error ("" when absent).
ErrorBodies ==
    {[json |-> j, error_description |-> d, error |-> e, text |-> "raw"] :
        j \in BOOLEAN, d \in {"", "desc"}, e \in {"", "err"}}

\* refreshToken, status !== 200: detail = parsed.error_description ||
\* parsed.error || res.body, or res.body when the body is not JSON.
TokenErrorDetail(body) ==
    IF ~body.json THEN body.text
    ELSE IF body.error_description # "" THEN body.error_description
    ELSE IF body.error # "" THEN body.error
    ELSE body.text

\* refreshToken() resolved with access token `token` at time t and
\* getAccessToken wrote { ...creds, ...fresh }: the whole record, from the
\* creds it had read before the await.
Refreshed(creds, token, t) ==
    [client_id |-> creds.client_id, client_secret |-> creds.client_secret,
     refresh_token |-> creds.refresh_token,
     access_token |-> token, token_expiry |-> t + EXPIRES_IN, exists |-> TRUE]

\* Mutant: the attendees are always mapped into the payload.
EventBodyAlwaysAttendees(proposal) ==
    [summary |-> proposal.title, start |-> proposal.start_time,
     end |-> proposal.end_time,
     attendees |-> [k \in 1..Len(proposal.attendees) |->
                       [email |-> proposal.attendees[k]]]]

\* The `event` object createCalendarEvent serializes, once, for the first
\* post and the retry: summary, start, end and, when proposal.attendees is
\* not empty, attendees as a list of { email }.
EventBody(proposal) ==
    IF Len(proposal.attendees) > 0
    THEN [summary |-> proposal.title, start |-> proposal.start_time,
          end |-> proposal.end_time,
          attendees |-> [k \in 1..Len(proposal.attendees) |->
                            [email |-> proposal.attendees[k]]]]
    ELSE [summary |-> proposal.title, start |-> proposal.start_time,
          end |-> proposal.end_time]

\* ---- channels/telegram.ts ------------------------------------------------------

\* How a sendEventProposal call ends: the message is sent, bot.api.sendMessage
\* throws, or the bot is not initialized.
SendOutcomes == {"sent", "sendFailed", "noBot"}

\* Mutant: a message id is returned whether or not a message was sent.
MessageHandleAlways(id, delivered) == id

\* What sendEventProposal returns: msg.message_id.toString(), or undefined
\* (from the catch block, or when the bot is not initialized).
MessageHandle(id, delivered) == IF delivered THEN id ELSE Null

\* sendEventProposal: the message with the Create and Skip buttons, or nothing
\* when sendMessage failed (the method then returns undefined).
sendEventProposal(m, id, delivered) ==
    [m EXCEPT ![id] = IF delivered THEN "buttons" ELSE "none"]

\* ctx.editMessageText(newText): the text replaces the message and its inline
\* keyboard ("The buttons disappear").
editMessageText(m, id, text) ==
    IF m[id] = "none" THEN m ELSE [m EXCEPT ![id] = text]

\* ---- the IPC handler ------------------------------------------------------------

FreeIds == {i \in Ids : store[i] = NoRow}
NextId == CHOOSE i \in FreeIds : \A j \in FreeIds : i <= j

\* `prop-{timestamp}-{random}`: an id that is in no row or, when the random
\* part collides, the id of a stored proposal.
GeneratedIds == (IF FreeIds = {} THEN {} ELSE {NextId}) \cup (Ids \ FreeIds)

\* A string that no Date parses.
BadDate == Null

\* An address is a sequence of characters.
GoodEmail == <<"a", "@", "b", ".", "c">>

\* The requests an agent writes at time t that pass every rule: a meeting in
\* a minute with one attendee, and one in two days with none.  The title has
\* a leading blank.
GoodRequests(t) ==
    {[title |-> <<" ", "a">>, startTime |-> t + 1, endTime |-> t + 31,
      attendees |-> <<GoodEmail>>],
     [title |-> <<" ", "a">>, startTime |-> t + 2 * EXPIRY_WINDOW,
      endTime |-> t + 2 * EXPIRY_WINDOW + 30, attendees |-> <<>>]}

\* The requests that break one rule, or two, of a request that passes.
BrokenRequests(r, t) ==
    {[r EXCEPT !.title = <<>>],
     [r EXCEPT !.title = <<" ">>],
     [r EXCEPT !.startTime = BadDate],
     [r EXCEPT !.endTime = BadDate],
     [r EXCEPT !.endTime = r.startTime],
     [r EXCEPT !.startTime = t],
     [r EXCEPT !.startTime = t, !.endTime = t],
     [r EXCEPT !.attendees = <<GoodEmail, <<"@", "b", ".", "c">>>>],
     [r EXCEPT !.attendees = <<<<"a", "@", "b">>>>],
     [r EXCEPT !.attendees = <<<<"a", ".", "c">>>>],
     [r EXCEPT !.title = <<>>, !.startTime = BadDate]}

\* The requests the IPC handler is given at time t: the good ones, and one
\* with a blank title, one that starts now and one that ends when it starts.
Requests(t) ==
    GoodRequests(t) \cup
    {[title |-> <<" ">>, startTime |-> t + 1, endTime |-> t + 31, attendees |-> <<>>],
     [title |-> <<" ", "a">>, startTime |-> t, endTime |-> t + 30, attendees |-> <<>>],
     [title |-> <<" ", "a">>, startTime |-> t + 1, endTime |-> t + 1, attendees |-> <<>>]}

RECURSIVE TrimLeft(_)
TrimLeft(s) == IF s # <<>> /\ Head(s) = " " THEN TrimLeft(Tail(s)) ELSE s
RECURSIVE TrimRight(_)
TrimRight(s) ==
    IF s # <<>> /\ s[Len(s)] = " " THEN TrimRight(SubSeq(s, 1, Len(s) - 1)) ELSE s
Trim(s) == TrimRight(TrimLeft(s))

\* "Title is non-empty", after trimming.
TitleNonEmpty(title) == Trim(title) # <<>>

\* "startTime / endTime parses as valid date"
ParsesAsDate(x) == x # BadDate

\* A basic email shape: a local part, one "@", a domain with a dot inside.
EmailShaped(e) ==
    \E k \in 2..Len(e) :
        /\ e[k] = "@"
        /\ \A j \in 1..Len(e) : e[j] # " " /\ (e[j] = "@" => j = k)
        /\ \E d \in (k + 2)..(Len(e) - 1) : e[d] = "."

\* Mutant: the validator tests the future before the order of the times.
ValidateFutureFirst(req, t) ==
    IF ~TitleNonEmpty(req.title) THEN "Event title is required"
    ELSE IF ~ParsesAsDate(req.startTime) THEN "Invalid start time"
    ELSE IF ~ParsesAsDate(req.endTime) THEN "Invalid end time"
    ELSE IF ~(req.startTime > t) THEN "Start time must be in the future"
    ELSE IF ~(req.startTime < req.endTime) THEN "Start time must be before end time"
    ELSE IF \E k \in 1..Len(req.attendees) : ~EmailShaped(req.attendees[k])
    THEN "Invalid attendee email"
    ELSE "ok"

\* Mutant: the validator without the rule on the future.
ValidateNoFutureRule(req, t) ==
    IF ~TitleNonEmpty(req.title) THEN "Event title is required"
    ELSE IF ~ParsesAsDate(req.startTime) THEN "Invalid start time"
    ELSE IF ~ParsesAsDate(req.endTime) THEN "Invalid end time"
    ELSE IF ~(req.startTime < req.endTime) THEN "Start time must be before end time"
    ELSE IF \E k \in 1..Len(req.attendees) : ~EmailShaped(req.attendees[k])
    THEN "Invalid attendee email"
    ELSE "ok"

\* The validation rules of the IPC handler, in the order of the table; the
\* request is accepted when no rule fails.
Validate(req, t) ==
    IF ~TitleNonEmpty(req.title) THEN "Event title is required"
    ELSE IF ~ParsesAsDate(req.startTime) THEN "Invalid start time"
    ELSE IF ~ParsesAsDate(req.endTime) THEN "Invalid end time"
    ELSE IF ~(req.startTime < req.endTime) THEN "Start time must be before end time"
    ELSE IF ~(req.startTime > t) THEN "Start time must be in the future"
    ELSE IF \E k \in 1..Len(req.attendees) : ~EmailShaped(req.attendees[k])
    THEN "Invalid attendee email"
    ELSE "ok"

\* Mutant: a request that fails validation is logged, and saved all the same.
DropRequestAfterSave(req, id) ==
    /\ op' = Op("ingest", 0, "rejected")
    /\ store' = createEventProposal(store, id, now, req)
    /\ UNCHANGED msg

\* "Validation errors are logged and the proposal is not created."
DropRequest(req, id) ==
    /\ op' = Op("ingest", 0, "rejected")
    /\ UNCHANGED <<store, msg>>

\* type 'event_proposal': validate, generate an id, save the row as pending,
\* send the inline keyboard and keep its message id.  A validation error is
\* logged and nothing is created; when the INSERT throws, step 4 is not reached.
Ingest ==
    /\ \E req \in Requests(now), id \in GeneratedIds :
         LET verdict == Validate(req, now)
             st == createEventProposal(store, id, now, req)
         IN IF verdict # "ok"
            THEN DropRequest(req, id)
            ELSE IF InsertConflict(store, id)
            THEN /\ store' = st
                 /\ op' = Op("ingest", id, "duplicate")
                 /\ UNCHANGED msg
            ELSE \E outcome \in SendOutcomes :
                 LET delivered == outcome = "sent" IN
                 /\ store' = [st EXCEPT ![id].telegram_message_id =
                                           MessageHandle(id, delivered)]
                 /\ msg' = sendEventProposal(msg, id, delivered)
                 /\ op' = Op("ingest", id, IF delivered THEN "created" ELSE outcome)
    /\ UNCHANGED <<now, cb, events, transitions, expiredAt, issued,
                   oauth, minted>>

\* ---- onEventCallback -------------------------------------------------------------

\* Mutant: the handler acts on a row whatever its status.
AlreadyHandledOnlyMissing(row) == row = NoRow

\* Step 2 of the handler: "If not found or status !== 'pending'".
AlreadyHandled(row) == row = NoRow \/ row.status # "pending"

\* Mutant: the handler never tests the age of the proposal.
IsExpiredNever(row, t) == FALSE

\* Step 3 of the handler: "If expired (created_at > 24h ago)", that is created
\* more than 24 hours before now.
IsExpired(row, t) == t - row.created_at > EXPIRY_WINDOW

\* Mutant: the start time is not validated again at approval.
StartInFutureUnchecked(row, t) == TRUE

\* Step 4: "Validate startTime is still in the future".
StartInFuture(row, t) == row.start_time > t

\* The facts about the row a handler loaded at time t, as they are (whatever
\* the handler tests): its status, its age against the 24 hours and its start
\* time against t.
ReadOf(row, t) ==
    IF row = NoRow THEN NoRead
    ELSE [status |-> row.status,
          age |-> IF t - row.created_at > EXPIRY_WINDOW THEN "over24h" ELSE "within24h",
          start |-> IF row.start_time > t THEN "future" ELSE "passed"]

Count(n) == IF n < MaxCount THEN n + 1 ELSE n
Bump(f, id) == [f EXCEPT ![id] = Count(@)]

\* The handler sets a status: the row, the count of committed writes and, for
\* expired, the time.
SetStatus(id, status) ==
    /\ store' = updateEventProposalStatus(store, id, status, now)
    /\ transitions' = Bump(transitions, id)
    /\ expiredAt' = IF status = "expired" THEN [expiredAt EXCEPT ![id] = now]
                    ELSE expiredAt

\* The handler ends with the message edited to `text`.
EndWith(h, id, text) ==
    /\ cb' = [cb EXCEPT ![h] = Idle]
    /\ msg' = editMessageText(msg, id, text)

\* Mutant: a failed write marks the proposal rejected.
FailHandlerRejects(h, id) ==
    /\ EndWith(h, id, "failed")
    /\ SetStatus(id, "rejected")

\* createCalendarEvent threw (token refresh failed, Calendar API error, network
\* error): the handler edits the message to the failure notice and writes no
\* status.
FailHandler(h, id) ==
    /\ EndWith(h, id, "failed")
    /\ UNCHANGED <<store, transitions, expiredAt>>

\* createCalendarEvent from a getAccessToken() call on: the token is missing
\* (throws, the handler reports the failure), valid (events.insert is posted)
\* or stale (the refresh is awaited).  `first` tells the first attempt from
\* the retry after a 401.
CallGetAccessToken(h, c, first) ==
    LET check == TokenCheck(oauth, now) IN
    /\ UNCHANGED <<oauth, minted, events>>
    /\ CASE check = "missing" ->
              /\ FailHandler(h, c.id)
              /\ UNCHANGED issued
         [] check = "valid" ->
              /\ UNCHANGED <<store, transitions, expiredAt>>
              /\ cb' = [cb EXCEPT ![h] = [c EXCEPT !.pc = IF first THEN "post1"
                                                          ELSE "post2",
                                                  !.res = "none",
                                                  !.token = oauth.access_token,
                                                  !.creds = NoCreds]]
              /\ issued' = issued \cup {[id |-> c.id, tag |-> c.tag, read |-> c.read]}
              /\ UNCHANGED msg
         [] OTHER ->
              /\ cb' = [cb EXCEPT ![h] = [c EXCEPT !.pc = IF first THEN "refresh1"
                                                          ELSE "refresh2",
                                                  !.res = "none",
                                                  !.token = Null,
                                                  !.creds = CredsOf(oauth)]]
              /\ UNCHANGED <<issued, msg, store, transitions, expiredAt>>

\* A callback_query `event:<tag>:<id>` arrives and onEventCallback runs up to
\* its first await.
Callback(h, id, tag) ==
    /\ cb[h] = Idle
    /\ \A g \in Handlers : g < h => cb[g] # Idle   \* the first free slot
    \* a button of a delivered message was tapped (the tap may arrive late, or
    \* twice), or the id is in no row
    /\ IF store[id] = NoRow THEN TRUE ELSE store[id].telegram_message_id # Null
    /\ op' = Op("callback", id, tag)
    /\ UNCHANGED now
    /\ LET row == getEventProposal(store, id)
           c == [Idle EXCEPT !.id = id, !.tag = tag, !.read = ReadOf(row, now),
                             !.body = EventBody(row)]
       IN
       IF AlreadyHandled(row)
       THEN \* steps 1-2: answerCallbackQuery only
            UNCHANGED <<store, msg, cb, events, transitions, expiredAt, issued,
                        oauth, minted>>
       ELSE IF IsExpired(row, now)
       THEN \* step 3
            /\ SetStatus(id, "expired")
            /\ EndWith(h, id, "expired")
            /\ UNCHANGED <<events, issued, oauth, minted>>
       ELSE IF tag = "approve"
       THEN IF ~StartInFuture(row, now)
            THEN /\ SetStatus(id, "expired")
                 /\ EndWith(h, id, "startPassed")
                 /\ UNCHANGED <<events, issued, oauth, minted>>
            ELSE CallGetAccessToken(h, c, TRUE)
       ELSE IF tag = "skip"
       THEN /\ SetStatus(id, "rejected")
            /\ EndWith(h, id, "skipped")
            /\ UNCHANGED <<events, issued, oauth, minted>>
       ELSE UNCHANGED <<store, msg, cb, events, transitions, expiredAt, issued,
                        oauth, minted>>

\* Mutant: a failed refresh is swallowed and events.insert is posted with the
\* token of the record on disk.
OnRefreshErrorUseStale(h, c, body) ==
    /\ op' = Op("tokenError", c.id, TokenErrorDetail(body))
    /\ cb' = [cb EXCEPT ![h].pc = IF c.pc = "refresh1" THEN "post1" ELSE "post2",
                        ![h].token = oauth.access_token,
                        ![h].creds = NoCreds]
    /\ issued' = issued \cup {[id |-> c.id, tag |-> c.tag, read |-> c.read]}
    /\ UNCHANGED <<store, transitions, expiredAt, msg, oauth, minted>>

\* refreshToken threw `Token refresh failed: <detail>`: getAccessToken and
\* createCalendarEvent let it through to the handler; nothing is written and
\* nothing is posted.
OnRefreshError(h, c, body) ==
    /\ op' = Op("tokenError", c.id, TokenErrorDetail(body))
    /\ FailHandler(h, c.id)
    /\ UNCHANGED <<issued, oauth, minted>>

\* The token endpoint answers a refreshToken() call: a new access token, which
\* getAccessToken writes to oauth.json before events.insert is posted, or a
\* failure, which createCalendarEvent throws to the handler.
TokenRespond(h) ==
    LET c == cb[h] IN
    /\ c.pc \in {"refresh1", "refresh2"}
    /\ UNCHANGED <<now, events>>
    /\ \/ /\ minted < MaxTokens
          /\ op' = Op("other", 0, "none")
          /\ UNCHANGED <<store, transitions, expiredAt>>
          /\ minted' = minted + 1
          /\ oauth' = Refreshed(c.creds, minted + 1, now)
          /\ cb' = [cb EXCEPT ![h].pc = IF c.pc = "refresh1" THEN "post1" ELSE "post2",
                              ![h].token = minted + 1,
                              ![h].creds = NoCreds]
          /\ issued' = issued \cup {[id |-> c.id, tag |-> c.tag, read |-> c.read]}
          /\ UNCHANGED msg
       \/ \E body \in ErrorBodies : OnRefreshError(h, c, body)

\* The Calendar API answers events.insert; with status 200 the event exists.
ApiRespond(h) ==
    LET c == cb[h] IN
    /\ c.pc \in {"post1", "post2"}
    /\ op' = Op("other", 0, "none")
    /\ \E o \in ApiOutcomes :
         /\ events' = IF o = "200" THEN Bump(events, c.id) ELSE events
         /\ cb' = [cb EXCEPT ![h].pc = IF c.pc = "post1" THEN "resp1" ELSE "resp2",
                             ![h].res = o, ![h].token = Null]
    /\ UNCHANGED <<now, store, msg, transitions, expiredAt, issued,
                   oauth, minted>>

\* Mutant: only the 401 is told from success (the `status !== 200` throw is
\* missing).
ClassifyNo200Check(res, first) ==
    IF res = "neterr" THEN "throw"
    ELSE IF res = "401" /\ first THEN "retry"
    ELSE "return"

\* Mutant: every 401 is retried, the one of the retry too.
ClassifyRetryAlways(res, first) ==
    IF res = "neterr" THEN "throw"
    ELSE IF res = "401" THEN "retry"
    ELSE IF res # "200" THEN "throw"
    ELSE "return"

\* Mutant: a first response that is not a 200 is retried, whatever its status.
ClassifyRetryAnyError(res, first) ==
    IF res = "neterr" THEN "throw"
    ELSE IF res # "200" /\ first THEN "retry"
    ELSE IF res # "200" THEN "throw"
    ELSE "return"

\* How createCalendarEvent treats a response: a rejected request promise
\* throws; a first 401 retries; any other status but 200 throws (on the retry
\* too); 200 returns { eventId, htmlLink }.
Classify(res, first) ==
    IF res = "neterr" THEN "throw"
    ELSE IF res = "401" /\ first THEN "retry"
    ELSE IF res # "200" THEN "throw"
    ELSE "return"

\* createCalendarEvent resumes with the response: 200 returns to the handler,
\* which sets approved and edits the message; a first 401 calls getAccessToken
\* again and posts once more; anything else throws to the handler, which edits
\* the message and writes no status.
HandleResponse(h) ==
    LET c == cb[h] IN
    /\ c.pc \in {"resp1", "resp2"}
    /\ UNCHANGED now
    /\ IF Classify(c.res, c.pc = "resp1") = "return"
       THEN /\ op' = Op("other", 0, "none")
            /\ SetStatus(c.id, "approved")
            /\ EndWith(h, c.id, "created")
            /\ UNCHANGED <<events, issued, oauth, minted>>
       ELSE IF Classify(c.res, c.pc = "resp1") = "retry"
       THEN /\ op' = Op("other", 0, "none")
            /\ CallGetAccessToken(h, c, FALSE)
       ELSE \* `Calendar API error <status>: <detail>`, or the socket error
            /\ op' = Op(IF c.pc = "resp1" THEN "apiError" ELSE "retryError", c.id, c.res)
            /\ FailHandler(h, c.id)
            /\ UNCHANGED <<events, issued, oauth, minted>>

\* ---- the hourly sweep --------------------------------------------------------------

Sweep ==
    /\ store' = expireStaleProposals(store, now)
    /\ transitions' = [i \in Ids |-> IF store'[i] # store[i] THEN Count(transitions[i])
                                      ELSE transitions[i]]
    /\ expiredAt' = [i \in Ids |-> IF store'[i] # store[i] THEN now ELSE expiredAt[i]]
    /\ op' = Op("sweep", 0, "none")
    /\ UNCHANGED <<now, msg, cb, events, issued, oauth, minted>>

\* Time passes.
Tick ==
    /\ \E t \in Times : t > now /\ now' = t
    /\ op' = Op("other", 0, "none")
    /\ UNCHANGED <<store, msg, cb, events, transitions, expiredAt,
                   issued, oauth, minted>>

Init ==
    /\ now = 0
    /\ store = [i \in Ids |-> NoRow]
    /\ msg = [i \in Ids |-> "none"]
    /\ cb = [h \in Handlers |-> Idle]
    /\ events = [i \in Ids |-> 0]
    /\ transitions = [i \in Ids |-> 0]
    /\ expiredAt = [i \in Ids |-> Null]
    /\ issued = {}
    /\ oauth \in {OAuthFile(0, EXPIRY_BUFFER + 1), OAuthFile(Null, Null), NoFile}
    /\ minted = 0
    /\ op = Op("other", 0, "none")

Next ==
    \/ Ingest
    \/ \E h \in Handlers, id \in Ids, tag \in Tags : Callback(h, id, tag)
    \/ \E h \in Handlers : TokenRespond(h)
    \/ \E h \in Handlers : ApiRespond(h)
    \/ \E h \in Handlers : HandleResponse(h)
    \/ Sweep
    \/ Tick

Spec == Init /\ [][Next]_vars

\* ---- the validator alone ---------------------------------------------------------

\* Raw requests of every kind: each field good or bad, in every combination,
\* and the broken variants of the good requests.
ValidatorInputs(t) ==
    {[title |-> ti, startTime |-> st, endTime |-> en, attendees |-> at] :
        ti \in {<<>>, <<" ">>, <<" ", "a">>},
        st \in {BadDate, t, t + 1},
        en \in {BadDate, t, t + 1, t + 31},
        at \in {<<>>, <<GoodEmail>>, <<<<"a", "@", "b">>>>,
                <<GoodEmail, <<"@", "b", ".", "c">>>>}}
    \cup UNION {BrokenRequests(r, t) : r \in GoodRequests(t)}

\* The validator is applied to a request at the current time; `op` keeps the
\* request and the verdict.
ValidateRequest ==
    /\ \E req \in ValidatorInputs(now) :
         op' = [name |-> "validate", id |-> 0, tag |-> Validate(req, now), req |-> req]
    /\ UNCHANGED <<now, store, msg, cb, events, transitions, expiredAt, issued,
                   oauth, minted>>

ValidatorInit ==
    /\ now \in Times
    /\ store = [i \in Ids |-> NoRow]
    /\ msg = [i \in Ids |-> "none"]
    /\ cb = [h \in Handlers |-> Idle]
    /\ events = [i \in Ids |-> 0]
    /\ transitions = [i \in Ids |-> 0]
    /\ expiredAt = [i \in Ids |-> Null]
    /\ issued = {}
    /\ oauth = NoFile
    /\ minted = 0
    /\ op = Op("other", 0, "none")

ValidatorNext == ValidateRequest

ValidatorSpec == ValidatorInit /\ [][ValidatorNext]_vars

\* ---- the callback data alone ------------------------------------------------------

\* Strings are sequences of characters.
EventPrefix == <<"e", "v", "e", "n", "t">>
ApproveTag == <<"a", "p", "p", "r", "o", "v", "e">>
SkipTag == <<"s", "k", "i", "p">>

\* Characters of a proposal id: those of `prop-{timestamp}-{random}`, and the
\* separator of the callback data.
IdChars == {"p", "-", "7", ":"}

\* The proposal ids of one to MaxIdLen characters.
ProposalIds == UNION {[1..n -> IdChars] : n \in 1..MaxIdLen}

\* The callback data of a button: `event:<action>:${proposal.id}`.
CallbackData(action, id) == EventPrefix \o <<":">> \o action \o <<":">> \o id

\* data.startsWith('event:')
StartsWithEvent(data) ==
    /\ Len(data) >= Len(EventPrefix) + 1
    /\ SubSeq(data, 1, Len(EventPrefix) + 1) = EventPrefix \o <<":">>

\* data.split(':'): the pieces between the separators, all of them.
RECURSIVE Split(_)
Split(s) ==
    IF \A k \in 1..Len(s) : s[k] # ":" THEN <<s>>
    ELSE LET k == CHOOSE j \in 1..Len(s) :
                     s[j] = ":" /\ \A m \in 1..(j - 1) : s[m] # ":"
         IN <<SubSeq(s, 1, k - 1)>> \o Split(SubSeq(s, k + 1, Len(s)))

\* An element the destructuring finds no piece for (no string of characters
\* equals it).
Undefined == <<"undefined">>

\* The callback_query handler: `const [, action, proposalId] = data.split(':')`,
\* the second and the third piece; data that does not start with `event:` is
\* not handled.
ParseCallback(data) ==
    IF ~StartsWithEvent(data) THEN [action |-> Undefined, proposalId |-> Undefined]
    ELSE LET parts == Split(data) IN
         [action |-> IF Len(parts) >= 2 THEN parts[2] ELSE Undefined,
          proposalId |-> IF Len(parts) >= 3 THEN parts[3] ELSE Undefined]

\* A button built by sendEventProposal for proposal `id` is tapped and the
\* callback_query handler takes its data apart; `op` keeps what went in and
\* what came out.
TapButton ==
    /\ \E action \in {ApproveTag, SkipTag}, id \in ProposalIds :
         LET data == CallbackData(action, id) IN
         op' = [name |-> "callbackData", id |-> id, tag |-> action,
                data |-> data, parsed |-> ParseCallback(data)]
    /\ UNCHANGED <<now, store, msg, cb, events, transitions, expiredAt, issued,
                   oauth, minted>>

CodecInit ==
    /\ now = 0
    /\ store = [i \in Ids |-> NoRow]
    /\ msg = [i \in Ids |-> "none"]
    /\ cb = [h \in Handlers |-> Idle]
    /\ events = [i \in Ids |-> 0]
    /\ transitions = [i \in Ids |-> 0]
    /\ expiredAt = [i \in Ids |-> Null]
    /\ issued = {}
    /\ oauth = NoFile
    /\ minted = 0
    /\ op = Op("other", 0, "none")

CodecNext == TapButton

CodecSpec == CodecInit /\ [][CodecNext]_vars

\* ---- the host process exits and is started again -------------------------------

\* Mutant: at start-up the store is reconciled with the calendar.
SurvivesCrashReconciled(st) ==
    [i \in Ids |-> IF st[i] # NoRow /\ events[i] > 0
                    THEN [st[i] EXCEPT !.status = "approved"]
                    ELSE st[i]]

\* What the SQLite file holds after a restart: the rows as the committed
\* statements left them; nothing at start-up looks at event_proposals.
SurvivesCrash(st) == st

\* The handlers whose events.insert is on the wire.
Posting == {h \in Handlers : cb[h].pc \in {"post1", "post2"}}

\* The process dies and restarts: every running onEventCallback is gone with
\* its local state; the database, oauth.json and the Telegram messages stay.
\* A request that was on the wire may still create its event at the Calendar
\* API, with no one left to read the answer.
Crash ==
    /\ cb' = [h \in Handlers |-> Idle]
    /\ store' = SurvivesCrash(store)
    /\ \E served \in SUBSET Posting :
         events' = [i \in Ids |->
                       IF \E h \in served : cb[h].id = i THEN Count(events[i])
                       ELSE events[i]]
    /\ op' = Op("crash", 0, "none")
    /\ UNCHANGED <<now, msg, transitions, expiredAt, issued, oauth, minted>>

CrashNext == Next \/ Crash

CrashSpec == Init /\ [][CrashNext]_vars

\* The hourly setInterval keeps calling expireStaleProposals, and the clock
\* keeps advancing.  Nothing is assumed of the human, of Telegram or of the
\* Calendar API.
FairSpec == Spec /\ WF_vars(Sweep) /\ WF_vars(Tick)

\* ---- properties ----------------------------------------------------------------

Rows == {i \in Ids : store[i] # NoRow}

\* A handler that holds a 200 response of events.insert it has not processed yet.
HoldsSuccess(h, i) ==
    /\ cb[h].id = i
    /\ cb[h].pc \in {"resp1", "resp2"}
    /\ cb[h].res = "200"

\* The step ends handler h's createCalendarEvent with a failure: a response
\* that is no success, or a failed token refresh.
FailureStep(h) ==
    /\ \/ cb[h].pc \in {"resp1", "resp2"} /\ cb[h].res # "200"
       \/ cb[h].pc \in {"refresh1", "refresh2"}
    /\ cb'[h] = Idle

\* C1: for every proposal id at most one transition out of pending commits,
\* however callbacks and sweeps interleave: the store records at most one
\* committed status write per id.
C1_AtMostOneTransition == \A i \in Ids : transitions[i] <= 1

C4_TerminalAbsorbing ==
    [][\A i \in Ids : store[i].status \in Terminal
                        => store'[i].status = store[i].status]_vars

\* C5: no write without affirmative approval: every create-event call was
\* issued by a handler of an approve callback that had read the proposal as
\* pending, not older than 24 hours and with its start time in the future; and
\* an event exists, or a call is in flight, only where such a call was issued.
C5_WriteOnlyOnApprove ==
    /\ \A r \in issued : /\ r.tag = "approve"
                          /\ r.read.status = "pending"
                          /\ r.read.age = "within24h"
                          /\ r.read.start = "future"
    /\ \A i \in Ids : events[i] > 0 => \E r \in issued : r.id = i
    /\ \A h \in Handlers :
          cb[h].pc \in {"post1", "post2", "resp1", "resp2"}
              => [id |-> cb[h].id, tag |-> cb[h].tag, read |-> cb[h].read] \in issued

\* C5 witness: skip and approve taps were both delivered, and an event exists.
C5_Witness ==
    \E i \in Ids : /\ events[i] > 0
                    /\ store[i].status = "rejected"
                    /\ issued # {}

C7_FailedWriteKeepsRow ==
    [][\A h \in Handlers : FailureStep(h) => store' = store]_vars

\* C7 witness: the failure notice is shown and the proposal is still pending.
C7_Witness ==
    \E i \in Rows : /\ msg[i] = "failed"
                     /\ store[i].status = "pending"
                     /\ store[i].resolved_at = Null

\* C8: after an approve callback whose write failed, the approve action is
\* still available on the approval message, so that the human can tap again.
C8_ApproveStillOffered ==
    [][\A h \in Handlers :
          (FailureStep(h) /\ msg[cb[h].id] = "buttons")
              => msg'[cb[h].id] = "buttons"]_vars

\* C9 (as claimed): a proposal created at T is never expired before T + 24h.
C9_NeverExpiredBefore24h ==
    \A i \in Rows :
        store[i].status = "expired" => now >= store[i].created_at + EXPIRY_WINDOW

\* C9 (amended): a proposal is expired before it is 24 hours old only by an
\* approve tap that found its start time passed; otherwise it was more than
\* 24 hours old when it was set to expired.
C9_ExpiredOnlyStaleOrStarted ==
    \A i \in Rows :
        store[i].status = "expired"
            => \/ expiredAt[i] > store[i].created_at + EXPIRY_WINDOW
               \/ expiredAt[i] >= store[i].start_time

\* C9 witness: a proposal expired while younger than 24 hours.
C9_Witness ==
    \E i \in Rows : /\ store[i].status = "expired"
                     /\ expiredAt[i] < store[i].created_at + EXPIRY_WINDOW

\* A sweep, or a callback for proposal i, was just handled.
Touches(o, i) == o.name = "sweep" \/ (o.name = "callback" /\ o.id = i)

\* C10 (as claimed): a pending proposal becomes expired when the sweep runs or
\* a tap arrives at any time t >= T + 24h, t = T + 24h included.
C10_ExpiresFrom24h ==
    [][\A i \in Rows :
          (/\ Touches(op', i)
           /\ store[i].status = "pending"
           /\ now >= store[i].created_at + EXPIRY_WINDOW)
              => store'[i].status = "expired"]_vars

\* C10 (amended): a pending proposal becomes expired when the sweep runs or a
\* tap arrives at any time t > T + 24h; at t = T + 24h exactly (and before)
\* the sweep leaves it pending and a tap does not expire it for its age; the
\* sweep and the tap path agree on which proposals are overdue.
C10_ExpiresAfter24h ==
    [][\A i \in Rows :
          /\ store[i].status = "pending"
                => (IsStale(store[i], now) <=> IsExpired(store[i], now))
          /\ (/\ Touches(op', i)
              /\ store[i].status = "pending"
              /\ now > store[i].created_at + EXPIRY_WINDOW)
                 => store'[i].status = "expired"
          /\ (/\ Touches(op', i)
              /\ store[i].status = "pending"
              /\ now <= store[i].created_at + EXPIRY_WINDOW
              /\ store'[i].status = "expired")
                 => (op'.tag = "approve" /\ store[i].start_time <= now)]_vars

\* C10 witness: the sweep has just expired a proposal older than 24 hours.
C10_Witness ==
    \E i \in Rows : /\ op.name = "sweep"
                     /\ store[i].status = "expired"
                     /\ expiredAt[i] = now
                     /\ store[i].resolved_at = Null

\* The step is the delivery of a callback `event:<tag>:<i>` to onEventCallback.
CallbackOn(i, tag) == op' = Op("callback", i, tag)

\* The step starts no call to the token endpoint or to events.insert, writes
\* no token and leaves no handler waiting for an answer.
NoExternalCall ==
    /\ events' = events
    /\ issued' = issued
    /\ minted' = minted
    /\ oauth' = oauth
    /\ cb' = cb

\* C11: a callback on a pending proposal created more than 24 hours ago moves
\* it to expired whatever the tag, and calls nothing outside.
C11_OldPendingExpires ==
    [][\A i \in Rows, tag \in Tags :
          (/\ CallbackOn(i, tag)
           /\ store[i].status = "pending"
           /\ now - store[i].created_at > EXPIRY_WINDOW)
          => /\ store'[i].status = "expired"
             /\ NoExternalCall]_vars

\* C11 witness: a tag that is neither approve nor skip expired an old proposal.
C11_Witness ==
    \E i \in Rows :
        /\ op = Op("callback", i, "other")
        /\ store[i].status = "expired"
        /\ expiredAt[i] = now
        /\ msg[i] = "expired"
        /\ now - store[i].created_at > EXPIRY_WINDOW

\* C12: an approve callback on a pending proposal whose start time has passed
\* moves it to expired and calls nothing outside.
C12_StartPassedExpires ==
    [][\A i \in Rows :
          (/\ CallbackOn(i, "approve")
           /\ store[i].status = "pending"
           /\ store[i].start_time < now)
          => /\ store'[i].status = "expired"
             /\ NoExternalCall]_vars

\* C12 witness: an approve within the 24 hours, after the start, expired the
\* proposal.
C12_Witness ==
    \E i \in Rows :
        /\ op = Op("callback", i, "approve")
        /\ store[i].status = "expired"
        /\ msg[i] = "startPassed"
        /\ store[i].start_time < now
        /\ now - store[i].created_at <= EXPIRY_WINDOW

\* C13: a reject callback (the Skip button, tag `skip`) on a pending proposal
\* younger than 24 hours whose start is in the future moves it to rejected,
\* stamps resolved_at and calls neither the token endpoint nor events.insert.
C13_RejectResolves ==
    [][\A i \in Rows :
          (/\ CallbackOn(i, "skip")
           /\ store[i].status = "pending"
           /\ now - store[i].created_at <= EXPIRY_WINDOW
           /\ store[i].start_time > now)
          => /\ store'[i].status = "rejected"
             /\ store'[i].resolved_at = now
             /\ NoExternalCall]_vars

\* C13 witness: a Skip has just rejected a young proposal that starts later.
C13_Witness ==
    \E i \in Rows :
        /\ op = Op("callback", i, "skip")
        /\ store[i].status = "rejected"
        /\ store[i].resolved_at = now
        /\ msg[i] = "skipped"
        /\ store[i].start_time > now
        /\ now - store[i].created_at <= EXPIRY_WINDOW

\* C14: a callback on a proposal that is not pending changes nothing: the row
\* (status, resolved_at) stays, the message is not edited, nothing is called.
C14_NonPendingNoOp ==
    [][\A i \in Rows, tag \in Tags :
          (CallbackOn(i, tag) /\ store[i].status # "pending")
          => /\ store' = store
             /\ msg' = msg
             /\ transitions' = transitions
             /\ NoExternalCall]_vars

\* C14 witness: a second Skip arrived after the proposal was rejected, and the
\* resolution time is still the earlier one.
C14_Witness ==
    \E i \in Rows :
        /\ op = Op("callback", i, "skip")
        /\ store[i].status = "rejected"
        /\ store[i].resolved_at # Null
        /\ store[i].resolved_at < now
        /\ msg[i] = "skipped"
        /\ transitions[i] = 1

\* C15: a callback whose id is in no row changes and creates no row and calls
\* nothing outside.
C15_UnknownIdNoOp ==
    [][\A i \in Ids, tag \in Tags :
          (CallbackOn(i, tag) /\ store[i] = NoRow)
          => /\ store' = store
             /\ msg' = msg
             /\ transitions' = transitions
             /\ NoExternalCall]_vars

\* C15 witness: an approve for an id that is in no row was delivered.
C15_Witness ==
    \E i \in Ids :
        /\ op = Op("callback", i, "approve")
        /\ store[i] = NoRow
        /\ \A h \in Handlers : cb[h] = Idle

\* Handler h finishes in this step on proposal i, which another delivery or
\* the sweep has resolved since h loaded it: a compare-and-set on pending
\* would fail for h.
LosesRace(h, i) ==
    /\ cb[h].id = i
    /\ cb[h].pc \in {"resp1", "resp2"}
    /\ cb'[h] = Idle
    /\ store[i].status # "pending"

C17_SweepFrame ==
    [][op'.name = "sweep"
       => /\ \A i \in Ids :
               IF store[i] # NoRow /\ store[i].status = "pending"
                                   /\ store[i].created_at < now - EXPIRY_WINDOW
               THEN store'[i].status = "expired"
               ELSE store'[i] = store[i]
          /\ msg' = msg
          /\ NoExternalCall]_vars

\* C17 witness: the sweep expired a stale proposal whose message still shows
\* the buttons.
C17_Witness ==
    \E i \in Rows :
        /\ op.name = "sweep"
        /\ store[i].status = "expired"
        /\ expiredAt[i] = now
        /\ transitions[i] = 1
        /\ msg[i] = "buttons"

\* The last instant of the sampled clock.
Horizon == EXPIRY_WINDOW + MaxSlack + 1

\* Proposal i is stored and the clock can still pass its 24 hours.
StoredInTime(i) ==
    IF store[i] = NoRow THEN FALSE
    ELSE store[i].created_at + EXPIRY_WINDOW < Horizon

\* C18: under FairSpec (the sweep keeps running, time advances) every stored
\* proposal eventually reaches approved, rejected or expired, whether or not
\* a button is ever tapped, the message was delivered or a write succeeds.
C18_EventuallyTerminal ==
    \A i \in Ids : StoredInTime(i) ~> (store[i].status \in Terminal)

\* C18 witness: a proposal whose message was never delivered, so that no
\* callback can name it, was expired by the sweep.
C18_Witness ==
    \E i \in Rows :
        /\ store[i].telegram_message_id = Null
        /\ msg[i] = "none"
        /\ store[i].status = "expired"
        /\ op.name = "sweep"

\* C19: createEventProposal inserts the row as pending; with an id that is in
\* a row it fails and leaves that row as it is.
C19_CreateKeepsExisting ==
    [][op'.name = "ingest"
       => \A i \in Ids :
             IF store[i] # NoRow
             THEN store'[i] = store[i] /\ msg'[i] = msg[i]
             ELSE store'[i] # NoRow
                  => store'[i].status = "pending" /\ store'[i].created_at = now]_vars

\* C19 witness: a create with the id of a resolved proposal has just failed.
C19_Witness ==
    \E i \in Rows :
        /\ op = Op("ingest", i, "duplicate")
        /\ store[i].status = "approved"
        /\ store[i].created_at < now

BrokenRules(req, t) ==
    {k \in 1..5 :
        \/ k = 1 /\ \A j \in 1..Len(req.title) : req.title[j] = " "
        \/ k = 2 /\ (req.startTime = BadDate \/ req.endTime = BadDate)
        \/ k = 3 /\ req.startTime >= req.endTime
        \/ k = 4 /\ req.startTime <= t
        \/ k = 5 /\ \E j \in 1..Len(req.attendees) : ~EmailShaped(req.attendees[j])}

\* The rule an error message belongs to; 0 for an accepted request.
RuleOf(verdict) ==
    CASE verdict = "Event title is required" -> 1
      [] verdict \in {"Invalid start time", "Invalid end time"} -> 2
      [] verdict = "Start time must be before end time" -> 3
      [] verdict = "Start time must be in the future" -> 4
      [] verdict = "Invalid attendee email" -> 5
      [] OTHER -> 0

\* C21: the validator reports the first rule, in the fixed order, that the
\* request breaks, and accepts a request that breaks none.
C21_FirstFailingRule ==
    op.name = "validate"
    => LET broken == BrokenRules(op.req, now) IN
       IF broken = {} THEN op.tag = "ok"
       ELSE /\ op.tag # "ok"
            /\ RuleOf(op.tag) \in broken
            /\ \A k \in broken : RuleOf(op.tag) <= k

\* C21 witness: a request that breaks the rules on the title, on the
\* timestamps and on the attendees was reported under the title.
C21_Witness ==
    /\ op.name = "validate"
    /\ {1, 2, 5} \subseteq BrokenRules(op.req, now)
    /\ op.tag = "Event title is required"

\* C22: a request that fails validation creates no row and presents no
\* message; the store is as it was.
C22_RejectedCreatesNothing ==
    [][op' = Op("ingest", 0, "rejected") => store' = store /\ msg' = msg]_vars

\* C22 witness: a request was rejected and there is still no row and no
\* message.
C22_Witness ==
    /\ op = Op("ingest", 0, "rejected")
    /\ Rows = {}
    /\ \A i \in Ids : msg[i] = "none"
    /\ now > 0

\* C23: when sendEventProposal fails or the bot is not connected, no handle
\* is returned and the proposal stays pending without a message handle.
C23_UndeliveredStaysPending ==
    \A i \in Rows :
        op \in {Op("ingest", i, "sendFailed"), Op("ingest", i, "noBot")}
        => /\ store[i].status = "pending"
           /\ store[i].telegram_message_id = Null
           /\ msg[i] = "none"

\* C23 witness: a proposal was saved while the bot was not connected.
C23_Witness ==
    \E i \in Rows :
        /\ op = Op("ingest", i, "noBot")
        /\ store[i].status = "pending"
        /\ store[i].telegram_message_id = Null

\* C24: a callback whose tag is neither of the two the keyboard offers is
\* ignored: it changes no proposal and no message.
C24_OtherTagIgnored ==
    [][\A i \in Ids : CallbackOn(i, "other") => store' = store /\ msg' = msg]_vars

\* Handler h calls getAccessToken in this step: an approve callback passed the
\* handler's tests and createCalendarEvent starts in the first free slot, or
\* createCalendarEvent resumes with a first 401.
GetAccessTokenCalled(h) ==
    \/ /\ cb[h] = Idle
       /\ \A g \in Handlers : g < h => cb[g] # Idle
       /\ \E i \in Rows :
            /\ CallbackOn(i, "approve")
            /\ store[i].status = "pending"
            /\ now - store[i].created_at <= EXPIRY_WINDOW
            /\ store[i].start_time > now
    \/ cb[h].pc = "resp1" /\ cb[h].res = "401" /\ cb'[h] # cb[h]

\* The token endpoint has answered handler h's refresh with a token in this
\* step, and getAccessToken returns.
RefreshReturned(h) ==
    /\ cb[h].pc \in {"refresh1", "refresh2"}
    /\ cb'[h].pc \in {"post1", "post2"}

\* C25: getAccessToken on a record whose expiry is more than five minutes
\* ahead returns the stored access token, calls no token endpoint and does
\* not write the record.
C25_ValidTokenReturned ==
    [][\A h \in Handlers :
          (/\ GetAccessTokenCalled(h)
           /\ oauth.exists
           /\ oauth.access_token # Null
           /\ oauth.token_expiry # Null
           /\ oauth.token_expiry - now > EXPIRY_BUFFER)
          => /\ cb'[h].pc \in {"post1", "post2"}
             /\ cb'[h].token = oauth.access_token
             /\ oauth' = oauth
             /\ minted' = minted]_vars

\* C25 witness: events.insert is in flight with the token the record has had
\* from the start, and no token was ever issued.
C25_Witness ==
    \E h \in Handlers :
        /\ cb[h].pc = "post1"
        /\ cb[h].token = 0
        /\ oauth = OAuthFile(0, EXPIRY_BUFFER + 1)
        /\ minted = 0

\* C26: getAccessToken on a record whose expiry is five minutes ahead or
\* less, or that lacks the access token or the expiry, calls the token
\* endpoint; when the call succeeds, the record on disk holds the new token
\* by the time getAccessToken returns it.
C26_StaleTokenRefreshed ==
    [][\A h \in Handlers :
          /\ (/\ GetAccessTokenCalled(h)
              /\ oauth.exists
              /\ \/ oauth.access_token = Null
                 \/ oauth.token_expiry = Null
                 \/ oauth.token_expiry - now <= EXPIRY_BUFFER)
             => /\ cb'[h].pc \in {"refresh1", "refresh2"}
                /\ oauth' = oauth
                /\ issued' = issued
          /\ RefreshReturned(h)
             => /\ minted' = minted + 1
                /\ cb'[h].token = minted'
                /\ oauth'.exists
                /\ oauth'.access_token = cb'[h].token]_vars

\* C26 witness: at minute 1, when the record written at setup is five minutes
\* from its expiry, a first token was issued, and events.insert is in flight
\* with the token now on disk.
C26_Witness ==
    \E h \in Handlers :
        /\ cb[h].pc = "post1"
        /\ cb[h].token = 1
        /\ oauth.access_token = 1
        /\ oauth.token_expiry = now + EXPIRES_IN
        /\ now + EXPIRY_BUFFER = EXPIRY_BUFFER + 1

\* C27: the refresh token, client id and client secret on disk never change,
\* and access token and expiry change only in a write that sets both from the
\* token response of that step.
C27_CredentialsStable ==
    [][oauth.exists
       => /\ oauth'.exists
          /\ oauth'.client_id = oauth.client_id
          /\ oauth'.client_secret = oauth.client_secret
          /\ oauth'.refresh_token = oauth.refresh_token
          /\ (oauth'.access_token # oauth.access_token
              \/ oauth'.token_expiry # oauth.token_expiry)
             => /\ minted' = minted + 1
                /\ oauth'.access_token = minted'
                /\ oauth'.token_expiry = now + EXPIRES_IN]_vars

\* C27 witness: the record has been rewritten twice and still holds the
\* refresh token, client id and client secret it started with.
C27_Witness ==
    /\ oauth.access_token = 2
    /\ minted = 2
    /\ CredsOf(oauth) = CredsOf(OAuthFile(0, 0))
    /\ now >= EXPIRY_WINDOW

\* The token endpoint has answered handler h's refresh with a status that is
\* not 200, in this step.
RefreshFailed(h) ==
    /\ cb[h].pc \in {"refresh1", "refresh2"}
    /\ cb'[h] # cb[h]
    /\ op'.name = "tokenError"

\* C28: when the token endpoint answers with a failure, the error carries the
\* provider's detail, the record on disk is unchanged and createCalendarEvent
\* posts no events.insert.
C28_RefreshFailureStops ==
    [][\A h \in Handlers :
          RefreshFailed(h)
          => /\ op'.tag \in {"desc", "err", "raw"}
             /\ oauth' = oauth
             /\ minted' = minted
             /\ cb'[h] = Idle
             /\ issued' = issued
             /\ events' = events]_vars

\* C28 witness: the first refresh of a handler failed with the provider's
\* error_description; the record is the one written at setup and nothing
\* was posted.
C28_Witness ==
    \E i \in Rows :
        /\ op = Op("tokenError", i, "desc")
        /\ oauth = OAuthFile(0, EXPIRY_BUFFER + 1)
        /\ issued = {}
        /\ msg[i] = "failed"
        /\ \A h \in Handlers : cb[h] = Idle

\* C29: with no credential file, getAccessToken throws without calling the
\* token endpoint and without creating the file, and createCalendarEvent
\* posts nothing.
C29_MissingFileStops ==
    [][\A h \in Handlers :
          (GetAccessTokenCalled(h) /\ ~oauth.exists)
          => /\ cb'[h] = Idle
             /\ oauth' = oauth
             /\ minted' = minted
             /\ issued' = issued
             /\ events' = events]_vars

\* C29 witness: an approve was delivered while there is no credential file;
\* the message shows the failure and the proposal is still pending.
C29_Witness ==
    \E i \in Rows :
        /\ op = Op("callback", i, "approve")
        /\ oauth = NoFile
        /\ msg[i] = "failed"
        /\ store[i].status = "pending"
        /\ \A h \in Handlers : cb[h] = Idle

\* C30: every write of a refresh, also when another getAccessToken call read
\* the record before it and is refreshing too, leaves on disk a whole record
\* whose access token and expiry are those of the writer's own response.
C30_WholeRecordWrites ==
    [][\A h \in Handlers :
          RefreshReturned(h)
          => oauth' = [client_id |-> oauth.client_id,
                       client_secret |-> oauth.client_secret,
                       refresh_token |-> oauth.refresh_token,
                       access_token |-> cb'[h].token,
                       token_expiry |-> now + EXPIRES_IN,
                       exists |-> TRUE]]_vars

\* C30 witness: two tokens were issued in the first minutes, which only two
\* calls that both read the record before either wrote can cause (a token
\* lasts an hour), and the record holds the second with its own expiry.
C30_Witness ==
    /\ minted = 2
    /\ now <= MaxSlack
    /\ oauth.access_token = 2
    /\ oauth.token_expiry = now + EXPIRES_IN
    /\ \E h \in Handlers : cb[h].pc \in {"post1", "post2"} /\ cb[h].token = 1

\* Handler h's createCalendarEvent resumes in this step with the response of
\* its first events.insert, which is `res`.
FirstResponse(h, res) ==
    /\ cb[h].pc = "resp1"
    /\ cb[h].res = res
    /\ cb'[h] # cb[h]

\* C31: when the first events.insert is answered with 401, createCalendarEvent
\* calls the token endpoint once, also when the token on disk still looks
\* valid, and posts events.insert once more.
C31_RetryForcesRefresh ==
    [][\A h \in Handlers :
          FirstResponse(h, "401")
          => /\ cb'[h].pc = "refresh2"
             /\ cb'[h].creds = CredsOf(oauth)]_vars

\* How far a createCalendarEvent call has come: the awaits in the order of
\* the source.
Rank(pc) ==
    CASE pc = "idle" -> 0
      [] pc = "refresh1" -> 1
      [] pc = "post1" -> 2
      [] pc = "resp1" -> 3
      [] pc = "refresh2" -> 4
      [] pc = "post2" -> 5
      [] pc = "resp2" -> 6

\* C32: a createCalendarEvent call posts events.insert at most twice and
\* never goes back: every step of it ends it or takes it to a later await;
\* the second post follows a first 401 only (directly, or after the refresh
\* that 401 started), and whatever answers the second post ends the call: a
\* 401 or another failure is thrown to the handler, with no refresh and no
\* third post.
C32_AtMostTwoCalls ==
    [][\A h \in Handlers :
          /\ cb'[h] # cb[h]
                => cb'[h] = Idle \/ Rank(cb'[h].pc) > Rank(cb[h].pc)
          /\ (cb'[h].pc = "post1" /\ cb[h].pc # "post1")
                => cb[h].pc \in {"idle", "refresh1"}
          /\ (cb'[h].pc \in {"post2", "refresh2"} /\ cb'[h].pc # cb[h].pc)
                => \/ cb[h].pc = "resp1" /\ cb[h].res = "401"
                   \/ cb[h].pc = "refresh2" /\ cb'[h].pc = "post2"
          /\ (cb[h].pc = "resp2" /\ cb'[h] # cb[h])
                => /\ cb'[h] = Idle
                   /\ issued' = issued
                   /\ minted' = minted
                   /\ oauth' = oauth
                   /\ events' = events
                   /\ cb[h].res # "200"
                        => /\ store' = store
                           /\ msg'[cb[h].id] \in {"failed", "none"}]_vars

\* C32 witness: the retry was answered with 401 too; the handler has ended
\* with the failure notice and the proposal is pending.
C32_Witness ==
    \E i \in Rows :
        /\ op = Op("retryError", i, "401")
        /\ msg[i] = "failed"
        /\ store[i].status = "pending"
        /\ events[i] = 0
        /\ \A h \in Handlers : cb[h] = Idle

\* C33: when the first events.insert fails with a status that is neither 200
\* nor 401, or with a network error, createCalendarEvent throws: no refresh,
\* no second post, nothing written, and the handler shows the failure.
C33_OtherFailureNoRetry ==
    [][\A h \in Handlers, res \in {"500", "neterr"} :
          FirstResponse(h, res)
          => /\ cb'[h] = Idle
             /\ issued' = issued
             /\ minted' = minted
             /\ oauth' = oauth
             /\ events' = events
             /\ store' = store
             /\ msg'[cb[h].id] \in {"failed", "none"}
             /\ op' = Op("apiError", cb[h].id, res)]_vars

\* C33 witness: the first post failed with a network error, no token was ever
\* requested, and the proposal is pending behind the failure notice.
C33_Witness ==
    \E i \in Rows :
        /\ op = Op("apiError", i, "neterr")
        /\ minted = 0
        /\ issued # {}
        /\ events[i] = 0
        /\ msg[i] = "failed"
        /\ store[i].status = "pending"
        /\ \A h \in Handlers : cb[h] = Idle

ApproveStepBeforeCommit(h) ==
    /\ cb'[h] # cb[h]
    /\ ~(cb[h].pc \in {"resp1", "resp2"} /\ cb[h].res = "200" /\ op'.name # "crash")

\* C35: under CrashSpec, an approve handler writes nothing to the store
\* before its commit, and a crash writes nothing either: a proposal that was
\* pending with a handler under way is pending after the restart, also when
\* its calendar event already exists, and no handler is left to record it.
C35_CrashLeavesPending ==
    [][/\ \A h \in Handlers : ApproveStepBeforeCommit(h) => store' = store
       /\ op'.name = "crash"
            => /\ \A h \in Handlers : cb'[h] = Idle
               /\ \A i \in Rows :
                     /\ store'[i] = store[i]
                     /\ (transitions[i] = 0 /\ \E h \in Handlers : cb[h].id = i)
                           => store'[i].status = "pending"]_vars

\* C35 witness: the process died after events.insert had returned 200 and
\* before the status was written: the event exists, the proposal is pending
\* with its buttons, and no status was ever written.
C35_Witness ==
    \E i \in Rows :
        /\ op.name = "crash"
        /\ events[i] = 1
        /\ store[i].status = "pending"
        /\ store[i].resolved_at = Null
        /\ transitions[i] = 0
        /\ msg[i] = "buttons"

\* C36: the action and the proposal id the callback_query handler extracts
\* from the callback data of a button are the action and the whole id that
\* sendEventProposal put in, for every id, with or without a ':' in it.
C36_IdRoundTrip ==
    op.name = "callbackData"
    => op.parsed = [action |-> op.tag, proposalId |-> op.id]

\* C37: in every state of the store, resolved_at is unset exactly when the
\* status is pending, and a row carries an external event id or link only
\* when it is approved.
C37_ResolvedIffNotPending ==
    \A i \in Rows :
        /\ store[i].resolved_at = Null <=> store[i].status = "pending"
        /\ {"external_id", "external_link"} \cap DOMAIN store[i] # {}
              => store[i].status = "approved"
====
